---- MODULE Spec2Model ----
(***************************************************************************)
(* Client-side audio streaming pipeline of Pict_call.                      *)
(*                                                                         *)
(*   - StreamingAnalyzer, in its two revisions: the one with the           *)
(*     shouldReconnect flag (src/unnamed/part_002, kind "flag") and the    *)
(*     one without (src/services/StreamingAnalyzer.ts, kind "plain");      *)
(*   - the WebSocket objects the analyzers create, with the events the     *)
(*     runtime delivers to the handlers installed on them;                 *)
(*   - the useAudioStreaming hook that owns an analyzer, in the revision   *)
(*     that keeps a suspicion history (src/unnamed/part_000, kind "hist",  *)
(*     paired with the "flag" analyzer) and in the revision of             *)
(*     src/hooks/useAudioStreaming.ts (kind "plain", paired with the       *)
(*     "plain" analyzer); every async function of the hook is a call that  *)
(*     advances from one await to the next.                                *)
(*                                                                         *)
(* Time is abstracted: a pending setTimeout is a value (its delay) that an *)
(* action may fire at any later moment.                                    *)
(***************************************************************************)
EXTENDS Integers, Sequences, FiniteSets, TLC

VARIABLES an,      \* the StreamingAnalyzer objects, by id
          sock,    \* the WebSocket objects, by id
          hook,    \* the state, refs and memoized closure of the hook
          calls,   \* the async calls of the hook's functions, by id
          recs,    \* the Audio.Recording objects, by id
          segs,    \* the audio segments handed to sendAudio so far
          cap,     \* how many objects, calls and frames this run may use
          ghost,   \* per analyzer: history facts the claims speak about
          trace,   \* for the hook: history facts the claims speak about
          last,    \* the operation the last step performed, with its inputs
          fx,      \* what the last step did to the outside: callbacks, frames
                   \* sent, UI calls, delays of the timers it set
          req      \* the call of analyzeStreamingAudio of the fallback path

vars == <<an, sock, hook, calls, recs, segs, cap, ghost, trace, last, fx, req>>

(***************************************************************************)
(* Bounds                                                                  *)
(***************************************************************************)
MaxSockets    == 4     \* WebSocket objects an analyzer on its own creates
FallbackCalls == 2     \* calls of analyzeStreamingAudio in a run
MaxSegments   == 2     \* audio segments ever handed to sendAudio
HookSockets   == 2     \* WebSocket objects the analyzers of a hook create
MaxAnalyzers  == 2     \* StreamingAnalyzer objects a hook constructs
MaxCalls      == 3     \* async calls of the hook's functions ever made
MaxRecordings == 2     \* Audio.Recording objects the "hist" hook constructs
PlainRecordings == 1   \* Audio.Recording objects the "plain" hook constructs
MaxFrames     == 1     \* inbound frames delivered to a hook's analyzers
IdleCalls     == 3     \* stopStreaming calls made on a hook that never started
SessionCalls  == 2     \* startStreaming and stopStreaming calls, SpecSession
SessionFrames == 2     \* inbound frames delivered, SpecSession
SessionSockets == 1    \* WebSocket objects created, SpecSession
SessionAnalyzers == 1  \* StreamingAnalyzer objects constructed, SpecSession
RestartCalls  == 3     \* startStreaming and stopStreaming calls, SpecRestart
RestartFrames == 2     \* inbound frames delivered, SpecRestart
RestartSockets == 2    \* WebSocket objects created, SpecRestart
RestartAnalyzers == 2  \* StreamingAnalyzer objects constructed, SpecRestart
CaptureCalls  == 6     \* async calls of the hook's functions and callbacks,
                       \* SpecHistCapture and SpecPlainCapture
CaptureUserCalls == 3  \* of which startStreaming and stopStreaming calls
CaptureRecordings == 2 \* Audio.Recording objects of "hist", SpecHistCapture;
                       \* "plain", which abandons its first one, has one more
CaptureSockets == 2    \* WebSocket objects created, capture specifications
CaptureAnalyzers == 2  \* StreamingAnalyzer objects, capture specifications
CaptureSegments == 1   \* segments handed to sendAudio, capture specifications
LoopCalls     == 4     \* async calls of the hook's functions and callbacks,
                       \* SpecLoop, the first startStreaming call included
LoopUserCalls == 3     \* of which startStreaming and stopStreaming calls
LoopRecordings == 2    \* Audio.Recording objects constructed, SpecLoop
LoopSockets   == 2     \* WebSocket objects created, SpecLoop
LoopAnalyzers == 2     \* StreamingAnalyzer objects constructed, SpecLoop
LoopSegments  == 1     \* segments handed to sendAudio, SpecLoop

\* The largest number of objects of a kind in any run.
Most(m, n) == IF m >= n THEN m ELSE n

(***************************************************************************)
(* Program constants                                                       *)
(***************************************************************************)
maxReconnectAttempts == 3
BaseDelay            == 1000
MAX_RETRIES          == 3
RETRY_DELAY          == 1000

AnalyzerIds == 1 .. Most(Most(Most(MaxAnalyzers, CaptureAnalyzers), LoopAnalyzers),
                     Most(SessionAnalyzers, RestartAnalyzers))
SocketIds   == 1 .. Most(Most(Most(MaxSockets, CaptureSockets), RestartSockets),
                     Most(Most(HookSockets, SessionSockets), LoopSockets))
CallIds     == 1 .. Most(Most(Most(MaxCalls, CaptureCalls), RestartCalls),
                     Most(Most(IdleCalls, SessionCalls), LoopCalls))
RecIds      == 1 .. Most(Most(MaxRecordings, PlainRecordings),
                     Most(CaptureRecordings + 1, LoopRecordings))
Kinds       == {"flag", "plain"}

FailedToConnect == "Failed to establish WebSocket connection"
FailedToSend    == "Failed to send audio data"

(***************************************************************************)
(* Inbound frames.  A frame is text; JSONParse gives what JSON.parse makes *)
(* of it: it throws on text that is not JSON, and yields the value null or *)
(* an object with the fields present in the text.                          *)
(***************************************************************************)
Frames == { "{oops",
            "null",
            "{\"error\":\"boom\"}",
            "{\"error\":\"\"}",
            "{\"error\":\"boom\",\"suspicious\":true}",
            "{\"suspicious\":true}",
            "{\"suspicious\":true,\"confidence\":0.9}",
            "{\"suspicious\":false}" }

Absent == "absent"

JSONValue(isNull, err, susp) ==
    [throws |-> FALSE, isNull |-> isNull, error |-> err, suspicious |-> susp]

JSONParse(text) ==
    CASE text = "null"                   -> JSONValue(TRUE, Absent, Absent)
      [] text = "{\"error\":\"boom\"}"   -> JSONValue(FALSE, "boom", Absent)
      [] text = "{\"error\":\"\"}"       -> JSONValue(FALSE, "", Absent)
      [] text = "{\"error\":\"boom\",\"suspicious\":true}"
                                         -> JSONValue(FALSE, "boom", "true")
      [] text = "{\"suspicious\":true}"  -> JSONValue(FALSE, Absent, "true")
      [] text = "{\"suspicious\":true,\"confidence\":0.9}"
                                         -> JSONValue(FALSE, Absent, "true")
      [] text = "{\"suspicious\":false}" -> JSONValue(FALSE, Absent, "false")
      [] OTHER -> [throws |-> TRUE, isNull |-> FALSE, error |-> Absent,
                   suspicious |-> Absent]

\* The frames that carry an analysis fragment.
Fragments == {text \in Frames : /\ ~JSONParse(text).throws
                                /\ JSONParse(text).suspicious # Absent
                                /\ JSONParse(text).error = Absent}

\* JavaScript truthiness of a field that is absent (undefined) or a string.
Truthy(v) == v # Absent /\ v # ""

(***************************************************************************)
(* Objects                                                                 *)
(***************************************************************************)
\* The fields of a StreamingAnalyzer; timers counts the timers the runtime
\* holds whose callback is this analyzer's connect().
NoAnalyzer ==
    [kind |-> "none", ws |-> 0, isConnected |-> FALSE, shouldReconnect |-> TRUE,
     reconnectAttempts |-> 0, reconnectTimeout |-> 0, chunkCount |-> 0,
     timers |-> 0]

\* The fields of a StreamingAnalyzer after its constructor.
NewAnalyzer(kind) == [NoAnalyzer EXCEPT !.kind = kind]

\* A WebSocket: readyState, the analyzer whose handlers are installed, and
\* whether its connection is established (recorded for the sockets that can
\* deliver a frame after close(), see LateFrames).
NoSockObj == [st |-> "none", owner |-> 0, up |-> FALSE]

NoGhost == [disconnected |-> FALSE,   \* the owner has called disconnect()
            exhausted    |-> FALSE,   \* the terminal error has been reported
            timerConnects |-> 0]      \* connect() calls by the timer since
                                      \* the last successful open

\* An array of fragments: its items, and whether a reference to it has been
\* handed to the UI callback.
NewArray(items) == [items |-> items, held |-> FALSE]

\* The hook: its React state (isStreaming, isInitializing, error), its refs,
\* the arrays analysisHistoryRef has pointed to (analysisHistoryRef is the
\* position of the current one; an array that was never handed out is
\* unreachable once replaced and is not kept),
\* the values of isInitializing/isStreaming captured by the memoized
\* startStreaming (and by the startRecording it closes over), and the number
\* of pending setTimeout(() => startRecording(), 1000) timers.  Such a timer
\* is only set by a startRecording that passed its guard, so its closure has
\* isInitializing false and isStreaming true.
NoHook ==
    [kind |-> "none", isStreaming |-> FALSE, isInitializing |-> FALSE,
     error |-> "", recordingRef |-> 0, analyzerRef |-> 0,
     chunkCountRef |-> 0, analysisHistoryRef |-> 1,
     arrays |-> <<NewArray(<<>>)>>,
     cbInit |-> FALSE, cbStream |-> FALSE, retry |-> 0, frames |-> 0]

\* The hook after its first render.
NewHook(kind) == [NoHook EXCEPT !.kind = kind]

\* The content of the array analysisHistoryRef points to.
History(h) == h.arrays[h.analysisHistoryRef].items

\* analysisHistoryRef.current = <a new array with these items>.
assignHistory(h, items) ==
    LET kept == SelectSeq(h.arrays, LAMBDA x : x.held)
    IN  [h EXCEPT !.arrays = Append(kept, NewArray(items)),
                  !.analysisHistoryRef = Len(kept) + 1]

\* An async call: where it is suspended, the closure it runs in, the
\* recording it works on, whether its promise was rejected, its steps in the
\* order in which they were completed (the teardown steps of a stopStreaming
\* call, the steps of a status-update callback), and for a stopStreaming call
\* the recording recordingRef held when the call was made.
NoCall == [kind |-> "none", pc |-> "none", capInit |-> FALSE,
           capStream |-> FALSE, rec |-> 0, rejected |-> FALSE, log |-> <<>>,
           held |-> 0]

\* Facts about the run of a hook: how many fragments its analysis callback
\* has ingested since startStreaming was last called, whether that call
\* was made after a stopStreaming call, with every earlier call settled and
\* no analyzer referenced, and the chunk numbers (values of chunkCountRef)
\* given to chunks since startStreaming or stopStreaming was last called.
NoTrace == [fresh |-> 0, restarted |-> FALSE, numbers |-> {}]

\* An Audio.Recording: none, new, prepared, recording, stopping (its
\* stopAndUnloadAsync is pending), unloaded, failed (it could not be prepared)
\* or stopFailed (its stopAndUnloadAsync was rejected); capStream is the
\* isStreaming its status callback closes over; stops counts the calls of
\* its stopAndUnloadAsync, sends the calls of sendAudio with its data.
NoRec == [st |-> "none", capStream |-> FALSE, stops |-> 0, sends |-> 0]

\* new Audio.Recording(), by a startRecording whose closure has isStreaming.
NewRec(isStreaming) == [NoRec EXCEPT !.st = "new", !.capStream = isStreaming]

\* A world: the objects, and the effects accumulated by the running handler.
World(A, S) == [an |-> A, sock |-> S, cb |-> <<>>, tx |-> <<>>, set |-> <<>>]

Created(S)  == {s \in SocketIds : S[s].st # "none"}
CanCreate(S) == Cardinality(Created(S)) < cap.sockets
FreshSocket(S) == Cardinality(Created(S)) + 1

Callback(a, fn, arg) == [a |-> a, fn |-> fn, arg |-> arg]

(***************************************************************************)
(* StreamingAnalyzer methods, as world transformers                        *)
(***************************************************************************)
clearTimeouts(W, a) ==
    IF W.an[a].reconnectTimeout # 0
    THEN [W EXCEPT !.an[a].reconnectTimeout = 0, !.an[a].timers = @ - 1]
    ELSE W

\* WebSocket.close(): starts the closing handshake of a socket that is
\* connecting or open; nothing on a socket already closing or closed.
wsClose(W, s) ==
    IF W.sock[s].st \in {"CONNECTING", "OPEN"}
    THEN [W EXCEPT !.sock[s].st = "CLOSING"]
    ELSE W

\* disconnect() that leaves shouldReconnect as it is.
disconnect_keepsFlag(W, a) ==
    LET W1 == clearTimeouts(W, a)
        s  == W1.an[a].ws
    IN  IF s # 0
        THEN [wsClose(W1, s) EXCEPT !.an[a].ws = 0,
                                    !.an[a].isConnected = FALSE]
        ELSE W1

disconnect(W, a) ==
    LET W0 == IF W.an[a].kind = "flag"
              THEN [W EXCEPT !.an[a].shouldReconnect = FALSE]
              ELSE W
        W1 == clearTimeouts(W0, a)
        s  == W1.an[a].ws
    IN  IF s # 0
        THEN [wsClose(W1, s) EXCEPT !.an[a].ws = 0,
                                    !.an[a].isConnected = FALSE]
        ELSE W1

\* new WebSocket(url) and the installation of the four handlers.
newWebSocket(W, a) ==
    LET s == FreshSocket(W.sock)
    IN  [W EXCEPT !.sock[s] = [st |-> "CONNECTING", owner |-> a, up |-> FALSE],
                  !.an[a].ws = s]

connect(W, a) ==
    IF W.an[a].kind = "flag"
    THEN IF ~W.an[a].shouldReconnect
         THEN W
         ELSE LET W1 == clearTimeouts(W, a)
                  W2 == IF W1.an[a].ws # 0 THEN disconnect(W1, a) ELSE W1
                  W3 == newWebSocket(W2, a)
              IN  [W3 EXCEPT !.an[a].shouldReconnect = TRUE]
    ELSE newWebSocket(disconnect(clearTimeouts(W, a), a), a)

\* Whether connect() would run `new WebSocket`.
ConnectCreates(W, a) == W.an[a].kind = "plain" \/ W.an[a].shouldReconnect

\* handleConnectionError() that does not call clearTimeouts().
handleConnectionError_keepsTimer(W, a) ==
    LET W1 == W
        z  == W1.an[a]
    IN  IF z.reconnectAttempts < maxReconnectAttempts
           /\ (z.kind = "flag" => z.shouldReconnect)
        THEN [W1 EXCEPT !.an[a].reconnectAttempts = z.reconnectAttempts + 1,
                        !.an[a].reconnectTimeout =
                              BaseDelay * (z.reconnectAttempts + 1),
                        !.an[a].timers = @ + 1,
                        !.set = Append(@, BaseDelay * (z.reconnectAttempts + 1))]
        ELSE [W1 EXCEPT !.cb = Append(@, Callback(a, "onError", FailedToConnect))]

handleConnectionError(W, a) ==
    LET W1 == clearTimeouts(W, a)
        z  == W1.an[a]
    IN  IF z.reconnectAttempts < maxReconnectAttempts
           /\ (z.kind = "flag" => z.shouldReconnect)
        THEN [W1 EXCEPT !.an[a].reconnectAttempts = z.reconnectAttempts + 1,
                        !.an[a].reconnectTimeout =
                              BaseDelay * (z.reconnectAttempts + 1),
                        !.an[a].timers = @ + 1,
                        !.set = Append(@, BaseDelay * (z.reconnectAttempts + 1))]
        ELSE [W1 EXCEPT !.cb = Append(@, Callback(a, "onError", FailedToConnect))]

\* sendAudio() that tests only `this.ws`.
sendAudio_ignoresConnected(W, a, seg) ==
    LET z == W.an[a]
    IN  IF z.ws # 0
        THEN CASE W.sock[z.ws].st = "CONNECTING" ->
                    [W EXCEPT !.cb = Append(@, Callback(a, "onError", FailedToSend))]
               [] W.sock[z.ws].st = "OPEN" ->
                    [W EXCEPT !.tx = Append(@, [s |-> z.ws, seg |-> seg])]
               [] OTHER -> W
        ELSE W

sendAudio(W, a, seg) ==
    LET z == W.an[a]
    IN  IF z.ws # 0 /\ z.isConnected
        THEN LET W1 == IF z.kind = "flag"
                       THEN [W EXCEPT !.an[a].chunkCount = @ + 1]
                       ELSE W
             IN  CASE W.sock[z.ws].st = "CONNECTING" ->
                        \* send() throws INVALID_STATE_ERR, caught
                        [W1 EXCEPT !.cb = Append(@, Callback(a, "onError", FailedToSend))]
                   [] W.sock[z.ws].st = "OPEN" ->
                        [W1 EXCEPT !.tx = Append(@, [s |-> z.ws, seg |-> seg])]
                   [] OTHER -> W1   \* the runtime discards the frame
        ELSE W

(***************************************************************************)
(* The handlers installed on a socket by connect().  Each acts on `this`,  *)
(* the analyzer that created the socket, whichever socket it now holds.    *)
(***************************************************************************)
\* onopen that leaves reconnectAttempts as it is.
onopen_keepsAttempts(W, a) ==
    [W EXCEPT !.an[a].isConnected = TRUE]

onopen(W, a) ==
    [W EXCEPT !.an[a].isConnected = TRUE, !.an[a].reconnectAttempts = 0]

\* onmessage that reports a frame it cannot parse through onError.
onmessage_reportsParseError(W, a, text) ==
    LET data == JSONParse(text)
    IN  IF data.throws \/ data.isNull
        THEN [W EXCEPT !.cb = Append(@, Callback(a, "onError", "parse error"))]
        ELSE IF Truthy(data.error)
             THEN [W EXCEPT !.cb = Append(@, Callback(a, "onError", data.error))]
             ELSE [W EXCEPT !.cb = Append(@, Callback(a, "onAnalysisUpdate", text))]

onmessage(W, a, text) ==
    LET data == JSONParse(text)
    IN  IF data.throws \/ data.isNull   \* JSON.parse or data.error throws
        THEN W
        ELSE IF Truthy(data.error)
             THEN [W EXCEPT !.cb = Append(@, Callback(a, "onError", data.error))]
             ELSE [W EXCEPT !.cb = Append(@, Callback(a, "onAnalysisUpdate", text))]

onerror(W, a) == handleConnectionError(W, a)

onclose(W, a) ==
    LET W1 == [W EXCEPT !.an[a].isConnected = FALSE]
    IN  IF W1.an[a].kind = "flag" /\ ~W1.an[a].shouldReconnect
        THEN W1
        ELSE handleConnectionError(W1, a)

(***************************************************************************)
(* Steps                                                                   *)
(***************************************************************************)
Step(op, a, s, text, seg, delay) ==
    [op |-> op, a |-> a, s |-> s, text |-> text, seg |-> seg, delay |-> delay,
     c |-> 0, out |-> ""]

\* The callbacks the hook gives to its analyzer: onError is setError; in
\* the "hist" hook onAnalysisUpdate appends a suspicious fragment to the
\* history and forwards the fragment with the history to the UI, in the
\* "plain" hook it is the UI callback itself.
UICall(frame, ref, history) == [frame |-> frame, ref |-> ref, history |-> history]

\* The analysis callback that appends every fragment.
appendSuspicious_all(h, text) == assignHistory(h, Append(History(h), text))

\* if (analysis.suspicious) analysisHistoryRef.current = [...current, analysis]
appendSuspicious(h, text) ==
    IF JSONParse(text).suspicious = "true"
    THEN assignHistory(h, Append(History(h), text))
    ELSE h

\* The analysis callback that forwards suspicious fragments only.
forward_suspiciousOnly(H, text) ==
    IF JSONParse(text).suspicious = "true"
    THEN [h  |-> [H.h EXCEPT !.arrays[H.h.analysisHistoryRef].held = TRUE],
          ui |-> Append(H.ui, UICall(text, H.h.analysisHistoryRef, History(H.h)))]
    ELSE H

\* onAnalysisUpdate({...analysis, history: analysisHistoryRef.current}): the
\* UI is given a reference to the current array.
forward(H, text) ==
    [h  |-> [H.h EXCEPT !.arrays[H.h.analysisHistoryRef].held = TRUE],
     ui |-> Append(H.ui, UICall(text, H.h.analysisHistoryRef, History(H.h)))]

Deliver1(H, c) ==
    IF H.h.kind = "none" THEN H
    ELSE IF c.fn = "onError" THEN [H EXCEPT !.h.error = c.arg]
    ELSE IF H.h.kind = "hist"
         THEN forward([H EXCEPT !.h = appendSuspicious(H.h, c.arg)], c.arg)
         ELSE [H EXCEPT !.ui = Append(@, UICall(c.arg, 0, <<>>))]

RECURSIVE Deliver(_, _)
Deliver(H, cbs) ==
    IF cbs = <<>> THEN H ELSE Deliver(Deliver1(H, Head(cbs)), Tail(cbs))

\* A step of an analyzer or of a socket: W is the world the handler leaves,
\* h the hook before the callbacks invoked by the handler are run.
Commit(W, h, step) ==
    LET H == Deliver([h |-> h, ui |-> <<>>], W.cb)
    IN  /\ an'   = W.an
        /\ sock' = W.sock
        /\ hook' = H.h
        /\ fx'   = [cb |-> W.cb, tx |-> W.tx, ui |-> H.ui, set |-> W.set]
        /\ last' = step
        /\ req'   = req
        /\ trace' = IF h.kind = "hist"
                    THEN [trace EXCEPT !.fresh = @ + Len(H.ui)]
                    ELSE trace
        /\ UNCHANGED <<calls, recs, cap>>

Here == World(an, sock)

Made(a) == an[a].kind # "none"

\* The owner calls connect().
Connect(a) ==
    /\ Made(a)
    /\ ConnectCreates(Here, a) => CanCreate(sock)
    /\ Commit(connect(Here, a), hook, Step("connect", a, 0, "", 0, 0))
    /\ ghost' = [ghost EXCEPT ![a].exhausted = FALSE,
                              ![a].disconnected =
                                  IF ConnectCreates(Here, a) THEN FALSE ELSE @]
    /\ UNCHANGED segs

\* The owner calls disconnect().
Disconnect(a) ==
    /\ Made(a)
    /\ Commit(disconnect(Here, a), hook, Step("disconnect", a, 0, "", 0, 0))
    /\ ghost' = [ghost EXCEPT ![a].disconnected = TRUE]
    /\ UNCHANGED segs

\* The owner calls sendAudio(segment); segments are numbered as produced.
\* A segment is offered to sendAudio once.
SendAudio(a) ==
    /\ Made(a)
    /\ segs.count < cap.segments
    /\ LET seg == segs.count + 1
           W   == sendAudio(Here, a, seg)
       IN  /\ Commit(W, hook, Step("sendAudio", a, an[a].ws, "", seg, 0))
           /\ segs' = [count   |-> seg,
                       sent    |-> segs.sent \cup {W.tx[i].seg : i \in 1 .. Len(W.tx)},
                       dropped |-> IF an[a].ws = 0 \/ ~an[a].isConnected
                                   THEN segs.dropped \cup {seg}
                                   ELSE segs.dropped]
    /\ UNCHANGED ghost

\* The handler that produced W reported the terminal error of analyzer a
\* because the attempts are used up (not because of a deliberate shutdown).
NoteExhausted(W, a) ==
    IF /\ \E i \in 1 .. Len(W.cb) : W.cb[i] = Callback(a, "onError", FailedToConnect)
       /\ W.an[a].reconnectAttempts >= maxReconnectAttempts
       /\ (W.an[a].kind = "flag" => W.an[a].shouldReconnect)
    THEN [ghost EXCEPT ![a].exhausted = TRUE]
    ELSE ghost

\* A frame may still be delivered after close() in this run.  Only such a
\* delivery depends on whether the closing socket had been open, so `up` is
\* recorded while this holds; it never holds again once it has ceased to.
LateFrames == hook.kind # "none" /\ hook.frames < cap.frames

\* The connection of socket s is established: the open event.
SocketOpen(s) ==
    /\ sock[s].st = "CONNECTING"
    /\ LET a == sock[s].owner
           W == onopen([Here EXCEPT !.sock[s].st = "OPEN", !.sock[s].up = LateFrames], a)
       IN  /\ Commit(W, hook, Step("onopen", a, s, "", 0, 0))
           /\ ghost' = [ghost EXCEPT ![a].timerConnects = 0]
    /\ UNCHANGED segs

\* A frame arrives on the open socket s: the message event.
SocketMessage(s, text) ==
    /\ sock[s].st = "OPEN"
    /\ hook.kind # "none" => hook.frames < cap.frames
    /\ LET a == sock[s].owner
           h == IF hook.kind = "none" THEN hook
                ELSE [hook EXCEPT !.frames = @ + 1]
       IN  Commit(onmessage(Here, a, text), h, Step("onmessage", a, s, text, 0, 0))
    /\ UNCHANGED <<segs, ghost>>

\* A frame arrives on socket s, whose connection was established, after
\* close() was called on it and before the connection is closed: the runtime dispatches the message event to the
\* handler whatever the readyState.
SocketLateMessage(s, text) ==
    /\ sock[s].st = "CLOSING" /\ sock[s].up
    /\ hook.kind # "none" /\ hook.frames < cap.frames
    /\ LET a == sock[s].owner
       IN  Commit(onmessage(Here, a, text), [hook EXCEPT !.frames = @ + 1],
                  Step("latemessage", a, s, text, 0, 0))
    /\ UNCHANGED <<segs, ghost>>

\* The runtime marks socket s closed before it dispatches the close event.
closed(W, s) == [W EXCEPT !.sock[s].st = "CLOSED", !.sock[s].up = FALSE]

\* The connection of socket s fails (also while it is being established or
\* closed): the runtime dispatches the error event and then the close event.
SocketFail(s) ==
    /\ sock[s].st \in {"CONNECTING", "OPEN", "CLOSING"}
    /\ LET a == sock[s].owner
           W == onclose(onerror(closed(Here, s), a), a)
       IN  /\ Commit(W, hook, Step("fail", a, s, "", 0, 0))
           /\ ghost' = NoteExhausted(W, a)
    /\ UNCHANGED segs

\* The connection of socket s is closed without a failure, by the peer or
\* as the end of the handshake started by close(): the close event alone.
SocketClose(s) ==
    /\ sock[s].st \in {"OPEN", "CLOSING"}
    /\ LET a == sock[s].owner
           W == onclose(closed(Here, s), a)
       IN  /\ Commit(W, hook, Step("close", a, s, "", 0, 0))
           /\ ghost' = NoteExhausted(W, a)
    /\ UNCHANGED segs

\* A timer set by analyzer a fires: () => this.connect().  It is the timer
\* reconnectTimeout refers to (held), or one that setTimeout started and
\* nothing cancelled before reconnectTimeout was overwritten.  A handle
\* whose timer has fired is no longer a pending timer: it reads as null.
TimerFire(a) ==
    /\ an[a].timers > 0
    /\ ConnectCreates(Here, a) => CanCreate(sock)
    /\ \E held \in BOOLEAN :
          /\ held => an[a].reconnectTimeout # 0
          /\ ~held => an[a].timers > (IF an[a].reconnectTimeout # 0 THEN 1 ELSE 0)
          /\ LET d  == IF held THEN an[a].reconnectTimeout ELSE 0
                 W0 == [Here EXCEPT !.an[a].timers = @ - 1,
                                    !.an[a].reconnectTimeout = IF held THEN 0 ELSE @]
             IN  Commit(connect(W0, a), hook, Step("timer", a, 0, "", 0, d))
    /\ ghost' = [ghost EXCEPT ![a].timerConnects = @ + 1]
    /\ UNCHANGED segs

(***************************************************************************)
(* The hook.  A call of startStreaming or stopStreaming runs up to its     *)
(* first await in the step that makes it, and from one await to the next   *)
(* in a step that settles the awaited promise with an outcome: "ok"        *)
(* (resolved), "no" (permission resolved as not granted) or "throw"        *)
(* (rejected).  Consecutive awaits with no access to the hook's state or   *)
(* refs between them are settled in one step: "ok" when all resolve,       *)
(* "throw" when one rejects.                                               *)
(***************************************************************************)
Outcomes == {"ok", "no", "throw"}

PermissionDenied   == "Microphone permission denied"
Rejected           == "rejected"
FailedToStart      == "Failed to start streaming"
FailedToRecord     == "Failed to start recording"
ChunkError         == "Error processing recording chunk"

\* Where the status-update callback of a recording is suspended: at its await
\* of stopAndUnloadAsync, at its await of readAsStringAsync.
ChunkPcs == {"stopUnload", "read"}

HookStep(op, c, out, a) == [Step(op, a, 0, "", 0, 0) EXCEPT !.c = c, !.out = out]

CallsMade  == {c \in CallIds : calls[c].kind # "none"}
FreshCall  == Cardinality(CallsMade) + 1
CanCall    == Cardinality(CallsMade) < cap.calls

AnalyzersMade == {a \in AnalyzerIds : an[a].kind # "none"}
FreshAnalyzer == Cardinality(AnalyzersMade) + 1
CanConstruct  == Cardinality(AnalyzersMade) < cap.analyzers

RecsMade(R) == {r \in RecIds : R[r].st # "none"}
FreshRec(R) == Cardinality(RecsMade(R)) + 1
CanRecord   == Cardinality(RecsMade(recs)) < cap.recordings

\* The native recorder is taken: expo-av has one recorder, which a recording
\* holds from the moment its prepareToRecordAsync resolves until its
\* stopAndUnloadAsync has unloaded it.  While it is taken every
\* prepareToRecordAsync is rejected ("Only one Recording object can be
\* prepared at a given time").  A recording whose stopAndUnloadAsync was
\* rejected may or may not have released it.
RecorderExists ==
    \E r \in RecIds : recs[r].st \in {"prepared", "recording", "stopping"}

Settled == \A c \in CallIds : calls[c].pc \in {"none", "done"}

\* The calls of startStreaming and stopStreaming made so far, and whether
\* the latest of them is a call of stopStreaming.
UserCalls == {c \in CallIds : calls[c].kind \in {"start", "stop"}}
Stopped ==
    \E c \in UserCalls : calls[c].kind = "stop" /\ \A d \in UserCalls : d <= c
CanUserCall == CanCall /\ Cardinality(UserCalls) < cap.user

\* A step of the hook: W is the world it leaves, h, C and R the hook, the
\* calls and the recordings it leaves.
HookCommit(W, h, C, R, step) ==
    /\ trace' = CASE step.op = "startStreaming" ->
                      [fresh |-> 0,
                       restarted |-> Stopped /\ Settled /\ hook.analyzerRef = 0,
                       numbers |-> {}]
                  [] step.op = "stopStreaming" -> NoTrace
                  [] OTHER -> trace
    /\ an'    = W.an
    /\ sock'  = W.sock
    /\ hook'  = h
    /\ calls' = C
    /\ recs'  = R
    /\ fx'    = [cb |-> W.cb, tx |-> W.tx, ui |-> <<>>, set |-> W.set]
    /\ last'  = step
    /\ req'   = req
    /\ UNCHANGED <<segs, cap>>

\* The parent renders with a new onAnalysisUpdate: useCallback makes a new
\* startStreaming, which closes over the state of this render.
Rerender ==
    /\ hook.kind # "none"
    /\ <<hook.cbInit, hook.cbStream>> # <<hook.isInitializing, hook.isStreaming>>
    /\ HookCommit(Here, [hook EXCEPT !.cbInit = hook.isInitializing,
                                     !.cbStream = hook.isStreaming],
                  calls, recs, HookStep("render", 0, "", 0))
    /\ UNCHANGED ghost

\* new StreamingAnalyzer(...) followed by connect(), by the hook.
constructAndConnect(W, kind) ==
    connect([W EXCEPT !.an[FreshAnalyzer] = NewAnalyzer(kind)], FreshAnalyzer)

(***************************************************************************)
(* The "hist" hook (src/unnamed/part_000)                                  *)
(***************************************************************************)
\* cleanupRecording, from the end of its first two awaits on: the recording
\* reference is taken and nulled; stopAndUnloadAsync is awaited only for a
\* recording whose _isDoneRecording is set.
histCleanupTake(h, C, c) ==
    LET r == h.recordingRef
    IN  IF r # 0
        THEN [h |-> [h EXCEPT !.recordingRef = 0],
              C |-> [C EXCEPT ![c].rec = r,
                              ![c].pc = IF recs[r].st = "unloaded"
                                        THEN "cleanStop" ELSE "clean2"],
              R |-> IF recs[r].st = "unloaded"
                    THEN [recs EXCEPT ![r].stops = @ + 1] ELSE recs]
        ELSE [h |-> h, C |-> [C EXCEPT ![c].pc = "clean2"], R |-> recs]

\* stopStreaming that empties the current array in place.
clearHistory_truncates(h) ==
    [h EXCEPT !.arrays[h.analysisHistoryRef].items = <<>>]

\* analysisHistoryRef.current = []
clearHistory(h) == assignHistory(h, <<>>)

\* The catch and finally blocks of startStreaming.
histStartFailed(h, msg) ==
    [h EXCEPT !.error = msg, !.isStreaming = FALSE, !.isInitializing = FALSE]

\* stopStreaming without its catch block: the rejection reaches the caller.
histStopCaught_rethrows(C, c) == [C EXCEPT ![c].rejected = TRUE]

\* The catch block of stopStreaming: the error is logged.
histStopCaught(C, c) == C

\* The end of startRecording, normally or in its catch block, where a retry
\* timer is set if the captured isStreaming is true; then, when it was
\* called by startStreaming, the finally block of startStreaming.
histRecordingEnds(h, call, ok) ==
    LET h1 == IF ~ok /\ call.capStream THEN [h EXCEPT !.retry = @ + 1] ELSE h
    IN  IF call.kind = "start" THEN [h1 EXCEPT !.isInitializing = FALSE] ELSE h1

HistStartStreaming ==
    /\ hook.kind = "hist"
    /\ CanUserCall
    /\ LET c    == FreshCall
           call == [NoCall EXCEPT !.kind = "start", !.capInit = hook.cbInit,
                                  !.capStream = hook.cbStream]
       IN  IF call.capInit
           THEN HookCommit(Here, hook, [calls EXCEPT ![c] = [call EXCEPT !.pc = "done"]],
                           recs, HookStep("startStreaming", c, "", 0))
           ELSE HookCommit(Here, [hook EXCEPT !.isInitializing = TRUE],
                           [calls EXCEPT ![c] = [call EXCEPT !.pc = "perm"]],
                           recs, HookStep("startStreaming", c, "", 0))
    /\ UNCHANGED ghost

\* stopStreaming that clears the history before anything else.
HistStopStreaming_clearsFirst ==
    /\ hook.kind = "hist"
    /\ CanUserCall
    /\ LET c == FreshCall
           a == hook.analyzerRef
           W == IF a # 0 THEN disconnect(Here, a) ELSE Here
           h == [clearHistory(hook) EXCEPT !.isStreaming = FALSE, !.analyzerRef = 0]
           steps == <<"history", "flag">> \o (IF a # 0 THEN <<"channel">> ELSE <<>>)
       IN  /\ HookCommit(W, h, [calls EXCEPT ![c] = [NoCall EXCEPT !.kind = "stop",
                                                                !.pc = "clean1",
                                                                !.held = hook.recordingRef,
                                                                !.log = steps]],
                         recs, HookStep("stopStreaming", c, "", a))
           /\ ghost' = IF a # 0 THEN [ghost EXCEPT ![a].disconnected = TRUE]
                       ELSE ghost

\* stopStreaming up to the first await of cleanupRecording:
\* setIsStreaming(false), then disconnect() and the reference nulled.
HistStopStreaming ==
    /\ hook.kind = "hist"
    /\ CanUserCall
    /\ LET c == FreshCall
           a == hook.analyzerRef
           W == IF a # 0 THEN disconnect(Here, a) ELSE Here
           h == [hook EXCEPT !.isStreaming = FALSE, !.analyzerRef = 0]
           steps == <<"flag">> \o (IF a # 0 THEN <<"channel">> ELSE <<>>)
       IN  /\ HookCommit(W, h, [calls EXCEPT ![c] = [NoCall EXCEPT !.kind = "stop",
                                                                !.pc = "clean1",
                                                                !.held = hook.recordingRef,
                                                                !.log = steps]],
                         recs, HookStep("stopStreaming", c, "", a))
           /\ ghost' = IF a # 0 THEN [ghost EXCEPT ![a].disconnected = TRUE]
                       ELSE ghost

\* startStreaming from `analyzerRef.current = new StreamingAnalyzer` on, up
\* to the first await inside startRecording or to the finally block.
HistOpenSession(c) ==
    /\ CanConstruct /\ CanCreate(sock)
    /\ LET a == FreshAnalyzer
           W == constructAndConnect(Here, "flag")
           h == [hook EXCEPT !.analyzerRef = a, !.isStreaming = TRUE]
       IN  IF calls[c].capInit \/ ~calls[c].capStream
           THEN \* startRecording returns at once
                HookCommit(W, [h EXCEPT !.isInitializing = FALSE],
                           [calls EXCEPT ![c].pc = "done"], recs,
                           HookStep("step", c, "ok", a))
           ELSE /\ CanRecord
                /\ LET r == FreshRec(recs)
                   IN  HookCommit(W, h, [calls EXCEPT ![c].pc = "prep", ![c].rec = r],
                                  [recs EXCEPT ![r] = NewRec(calls[c].capStream)],
                                  HookStep("step", c, "ok", a))

\* The promise a call of the "hist" hook awaits settles with outcome out.
HistStep(c, out) ==
    /\ hook.kind = "hist"
    /\ calls[c].pc \notin {"none", "done"} \cup ChunkPcs
    /\ out = "no" => calls[c].pc = "perm"
    /\ (calls[c].pc = "prep" /\ out = "ok") => ~RecorderExists
    /\ LET call  == calls[c]
           start == call.kind = "start"
           Done(h, C) == HookCommit(Here, h, [C EXCEPT ![c].pc = "done"], recs,
                                    HookStep("step", c, out, 0))
           Go(h, C)   == HookCommit(Here, h, C, recs, HookStep("step", c, out, 0))
           \* a rejection that reaches the catch block of the calling function
           Thrown(msg) == IF start THEN Done(histStartFailed(hook, msg), calls)
                          ELSE Done(hook, histStopCaught(calls, c))
       IN  CASE call.pc \in {"perm", "clean1"} ->
                  \* "perm": requestPermissionsAsync, then as "clean1";
                  \* "clean1": setIsEnabledAsync(false) and the 500 ms pause
                  \* of cleanupRecording
                  IF out = "ok"
                  THEN LET T == histCleanupTake(hook, calls, c)
                       IN  HookCommit(Here, T.h, T.C, T.R, HookStep("step", c, out, 0))
                  ELSE Thrown(IF out = "no" THEN PermissionDenied ELSE Rejected)
             [] call.pc = "cleanStop" ->
                  \* a failure of stopAndUnloadAsync is caught and logged
                  Go(hook, [calls EXCEPT ![c].pc = "clean2"])
             [] call.pc = "clean2" ->
                  \* setIsEnabledAsync(true) and the 500 ms pause of
                  \* cleanupRecording, then setAudioModeAsync
                  IF out # "ok" THEN Thrown(Rejected)
                  ELSE IF start THEN HistOpenSession(c)
                  ELSE \* cleanupRecording has resolved; the history is cleared
                       Done([clearHistory(hook) EXCEPT !.chunkCountRef = 0],
                            [calls EXCEPT ![c].log = @ \o <<"device", "history">>])
             [] call.pc = "prep" ->
                  IF out = "ok"
                  THEN HookCommit(Here, [hook EXCEPT !.recordingRef = call.rec],
                                  [calls EXCEPT ![c].pc = "startAsync"],
                                  [recs EXCEPT ![call.rec].st = "prepared"],
                                  HookStep("step", c, out, 0))
                  ELSE HookCommit(Here, histRecordingEnds(hook, call, FALSE),
                                  [calls EXCEPT ![c].pc = "done"],
                                  [recs EXCEPT ![call.rec].st = "failed"],
                                  HookStep("step", c, out, 0))
             [] call.pc = "startAsync" ->
                  HookCommit(Here, histRecordingEnds(hook, call, out = "ok"),
                             [calls EXCEPT ![c].pc = "done"],
                             IF out = "ok"
                             THEN [recs EXCEPT ![call.rec].st = "recording"]
                             ELSE recs,
                             HookStep("step", c, out, 0))
    /\ UNCHANGED ghost

\* A retry timer fires: startRecording() runs up to its await of prepare.
HistRetryRecording ==
    /\ hook.kind = "hist"
    /\ hook.retry > 0
    /\ CanCall /\ CanRecord
    /\ LET c == FreshCall
           r == FreshRec(recs)
       IN  HookCommit(Here, [hook EXCEPT !.retry = @ - 1],
                      [calls EXCEPT ![c] = [NoCall EXCEPT !.kind = "retry", !.pc = "prep",
                                                          !.capStream = TRUE, !.rec = r]],
                      [recs EXCEPT ![r] = NewRec(TRUE)],
                      HookStep("retry", c, "", 0))
    /\ UNCHANGED ghost

(***************************************************************************)
(* The "plain" hook (src/hooks/useAudioStreaming.ts)                       *)
(***************************************************************************)
\* cleanupRecording: the reference is taken and nulled; stopAndUnloadAsync
\* is awaited only for a recording whose _isDoneRecording is set.  Gives the
\* hook, and whether the call now awaits stopAndUnloadAsync.
plainCleanupTake(h, R) ==
    LET r == h.recordingRef
        waits == r # 0 /\ R[r].st = "unloaded"
    IN  [h |-> [h EXCEPT !.recordingRef = 0],
         waits |-> waits,
         R |-> IF waits THEN [R EXCEPT ![r].stops = @ + 1] ELSE R]

PlainStartStreaming ==
    /\ hook.kind = "plain"
    /\ CanUserCall
    /\ LET c == FreshCall
       IN  HookCommit(Here, hook,
                      [calls EXCEPT ![c] = [NoCall EXCEPT !.kind = "start", !.pc = "perm",
                                                          !.capInit = hook.cbInit,
                                                          !.capStream = hook.cbStream]],
                      recs, HookStep("startStreaming", c, "", 0))
    /\ UNCHANGED ghost

PlainStopStreaming ==
    /\ hook.kind = "plain"
    /\ CanUserCall
    /\ LET c == FreshCall
           a == hook.analyzerRef
           W == IF a # 0 THEN disconnect(Here, a) ELSE Here
           T == plainCleanupTake([hook EXCEPT !.isStreaming = FALSE, !.analyzerRef = 0],
                                 recs)
       IN  /\ HookCommit(W, T.h,
                         [calls EXCEPT ![c] = [NoCall EXCEPT !.kind = "stop",
                                                 !.held = hook.recordingRef,
                                                 !.pc = IF T.waits THEN "cleanStop"
                                                        ELSE "done"]],
                         T.R, HookStep("stopStreaming", c, "", a))
           /\ ghost' = IF a # 0 THEN [ghost EXCEPT ![a].disconnected = TRUE]
                       ELSE ghost

\* startRecording from `new Audio.Recording()` to the await of prepare.
plainNewRecording(W, h, R, c, a) ==
    /\ CanRecord
    /\ LET r == FreshRec(R)
       IN  HookCommit(W, h, [calls EXCEPT ![c].pc = "prep", ![c].rec = r],
                      [R EXCEPT ![r] = NewRec(calls[c].capStream)],
                      HookStep("step", c, "ok", a))

\* startStreaming from `analyzerRef.current = new StreamingAnalyzer` on, up
\* to the first await inside startRecording or to its return.
PlainOpenSession(c) ==
    /\ CanConstruct /\ CanCreate(sock)
    /\ LET a == FreshAnalyzer
           W == constructAndConnect(Here, "plain")
           h == [hook EXCEPT !.analyzerRef = a, !.isStreaming = TRUE]
       IN  IF calls[c].capInit
           THEN \* startRecording returns at once
                HookCommit(W, h, [calls EXCEPT ![c].pc = "done"], recs,
                           HookStep("step", c, "ok", a))
           ELSE LET T == plainCleanupTake([h EXCEPT !.isInitializing = TRUE], recs)
                IN  IF T.waits
                    THEN HookCommit(W, T.h, [calls EXCEPT ![c].pc = "cleanStop"],
                                    T.R, HookStep("step", c, "ok", a))
                    ELSE plainNewRecording(W, T.h, T.R, c, a)

\* The catch and finally blocks of startRecording.
plainRecordFailed(h) ==
    [h EXCEPT !.error = FailedToRecord, !.isStreaming = FALSE,
              !.isInitializing = FALSE]

\* The promise a call of the "plain" hook awaits settles with outcome out.
PlainStep(c, out) ==
    /\ hook.kind = "plain"
    /\ calls[c].pc \notin {"none", "done"} \cup ChunkPcs
    /\ out = "no" => calls[c].pc = "perm"
    /\ (calls[c].pc = "prep" /\ out = "ok") => ~RecorderExists
    /\ LET call == calls[c]
           Done(h) == HookCommit(Here, h, [calls EXCEPT ![c].pc = "done"], recs,
                                 HookStep("step", c, out, 0))
           \* the catch block of startStreaming
           Thrown == Done([hook EXCEPT !.error = FailedToStart, !.isStreaming = FALSE])
       IN  CASE call.pc = "perm" ->
                  \* requestPermissionsAsync, then setAudioModeAsync
                  CASE out = "ok" -> PlainOpenSession(c)
                    [] out = "no" -> Done(hook)
                    [] OTHER      -> Thrown
             [] call.pc = "cleanStop" ->
                  \* a failure of stopAndUnloadAsync is caught and logged
                  IF call.kind = "stop" THEN Done(hook)
                  ELSE plainNewRecording(Here, hook, recs, c, 0)
             [] call.pc = "prep" ->
                  IF out = "ok"
                  THEN HookCommit(Here, [hook EXCEPT !.recordingRef = call.rec],
                                  [calls EXCEPT ![c].pc = "startAsync"],
                                  [recs EXCEPT ![call.rec].st = "prepared"],
                                  HookStep("step", c, out, 0))
                  ELSE HookCommit(Here, plainRecordFailed(hook),
                                  [calls EXCEPT ![c].pc = "done"],
                                  [recs EXCEPT ![call.rec].st = "failed"],
                                  HookStep("step", c, out, 0))
             [] call.pc = "startAsync" ->
                  IF out = "ok"
                  THEN HookCommit(Here, [hook EXCEPT !.isInitializing = FALSE],
                                  [calls EXCEPT ![c].pc = "done"],
                                  [recs EXCEPT ![call.rec].st = "recording"],
                                  HookStep("step", c, out, 0))
                  ELSE Done(plainRecordFailed(hook))
    /\ UNCHANGED ghost

(***************************************************************************)
(* The status-update callback of a recording, in both hooks.  A status     *)
(* update is a step when it gets past the guards of the callback: the      *)
(* recording is recording and has run for CHUNK_DURATION, the isStreaming  *)
(* the callback closes over is true and recordingRef is not null.  Any     *)
(* other status update returns at once.                                    *)
(***************************************************************************)
\* A step of a status-update callback: W is the world it leaves, h the hook
\* before the callbacks invoked by sendAudio are run, C, R and G the calls,
\* the recordings and the segments it leaves.
ChunkCommit(W, h, C, R, G, step) ==
    LET H == Deliver([h |-> h, ui |-> <<>>], W.cb)
    IN  /\ an'    = W.an
        /\ sock'  = W.sock
        /\ hook'  = H.h
        /\ calls' = C
        /\ recs'  = R
        /\ segs'  = G
        /\ fx'    = [cb |-> W.cb, tx |-> W.tx, ui |-> H.ui, set |-> W.set]
        /\ last'  = step
        /\ req'   = req
        /\ trace' = IF step.op = "status" /\ h.kind = "hist"
                    THEN [trace EXCEPT !.numbers = @ \cup {h.chunkCountRef}]
                    ELSE trace
        /\ UNCHANGED <<cap, ghost>>

\* The callback from its guards to its await of stopAndUnloadAsync: the
\* recording in recordingRef is taken, whichever recording reports.
\* The callback that leaves the recording in recordingRef while it stops it.
takeChunk_keepsRef(h, C, R, c) ==
    LET cur == h.recordingRef
    IN  [h |-> [h EXCEPT !.chunkCountRef = IF h.kind = "hist" THEN @ + 1 ELSE @],
         C |-> [C EXCEPT ![c] = [NoCall EXCEPT !.kind = "chunk", !.pc = "stopUnload",
                                               !.capStream = TRUE, !.rec = cur]],
         R |-> [R EXCEPT ![cur].st = "stopping", ![cur].stops = @ + 1]]

takeChunk(h, C, R, c) ==
    LET cur == h.recordingRef
    IN  [h |-> [h EXCEPT !.recordingRef = 0,
                         !.chunkCountRef = IF h.kind = "hist" THEN @ + 1 ELSE @],
         C |-> [C EXCEPT ![c] = [NoCall EXCEPT !.kind = "chunk", !.pc = "stopUnload",
                                               !.capStream = TRUE, !.rec = cur]],
         R |-> [R EXCEPT ![cur].st = "stopping", ![cur].stops = @ + 1]]

\* A status of recording r, taken while it was recording for CHUNK_DURATION
\* or more, is delivered to its callback; r may have been stopped since.
Reports(r) == recs[r].st \in {"recording", "stopping"}

StatusUpdate(r) ==
    /\ hook.kind # "none"
    /\ Reports(r) /\ recs[r].capStream
    /\ hook.recordingRef # 0
    /\ CanCall
    /\ LET c == FreshCall
           T == takeChunk(hook, calls, recs, c)
       IN  ChunkCommit(Here, T.h, T.C, T.R, segs, HookStep("status", c, "", 0))

\* The same, when the callback returns at its first line:
\* if (!isStreaming || !recordingRef.current) return;
StatusIgnored(r) ==
    /\ hook.kind # "none"
    /\ Reports(r)
    /\ ~recs[r].capStream \/ hook.recordingRef = 0
    /\ ChunkCommit(Here, hook, calls, recs, segs, HookStep("ignored", 0, "", 0))

\* analyzerRef.current.sendAudio(base64Content) on the next segment.
sendChunk(W, R, G, a, r) ==
    LET seg == G.count + 1
        W1  == sendAudio(W, a, seg)
    IN  [W |-> W1,
         R |-> [R EXCEPT ![r].sends = @ + 1],
         G |-> [count   |-> seg,
                sent    |-> G.sent \cup {W1.tx[i].seg : i \in 1 .. Len(W1.tx)},
                dropped |-> IF W.an[a].ws = 0 \/ ~W.an[a].isConnected
                            THEN G.dropped \cup {seg} ELSE G.dropped]]

\* The catch block of the callback.
chunkFailed(h) == [h EXCEPT !.error = ChunkError]

\* The callback that leaves the next startRecording to a later event.
histNextRecording_waits(C, R) == [C |-> C, R |-> R]

\* "hist": startRecording(), called by the callback and not awaited, up to
\* its await of prepareToRecordAsync; the closure has passed the guard of
\* startRecording before.
histNextRecording(C, R) ==
    LET c2 == Cardinality({c \in CallIds : C[c].kind # "none"}) + 1
        r2 == FreshRec(R)
    IN  [C |-> [C EXCEPT ![c2] = [NoCall EXCEPT !.kind = "record", !.pc = "prep",
                                                !.capStream = TRUE, !.rec = r2]],
         R |-> [R EXCEPT ![r2] = NewRec(TRUE)]]

\* "plain": `if (isStreaming) await startRecording()` in the callback, up to
\* the first await of startRecording that suspends.
plainNextRecording(h, C, R, c) ==
    IF C[c].capInit
    THEN [h |-> h, C |-> [C EXCEPT ![c].pc = "done"], R |-> R]
    ELSE LET T  == plainCleanupTake([h EXCEPT !.isInitializing = TRUE], R)
             r2 == FreshRec(R)
         IN  IF T.waits
             THEN [h |-> T.h, C |-> [C EXCEPT ![c].pc = "cleanStop"], R |-> T.R]
             ELSE [h |-> T.h, C |-> [C EXCEPT ![c].pc = "prep", ![c].rec = r2],
                   R |-> [R EXCEPT ![r2] = NewRec(TRUE)]]

\* The promise a status-update callback awaits settles with outcome out.
ChunkStep(c, out) ==
    /\ hook.kind # "none"
    /\ calls[c].pc \in ChunkPcs
    /\ out \in {"ok", "throw"}
    /\ LET call == calls[c]
           a    == hook.analyzerRef
           Done(h, R) == ChunkCommit(Here, h, [calls EXCEPT ![c].pc = "done"], R, segs,
                                     HookStep("chunk", c, out, 0))
           \* what follows the `if (uri && analyzerRef.current && isStreaming)`
           Then(W, h, R, G) ==
               IF hook.kind = "hist"
               THEN /\ CanCall /\ CanRecord
                    /\ LET N == histNextRecording([calls EXCEPT ![c].pc = "done"], R)
                       IN  ChunkCommit(W, h, N.C, N.R, G, HookStep("chunk", c, out, a))
               ELSE /\ CanRecord
                    /\ LET N == plainNextRecording(h, calls, R, c)
                       IN  ChunkCommit(W, N.h, N.C, N.R, G, HookStep("chunk", c, out, a))
       IN  IF out = "throw"
           THEN Done(chunkFailed(hook),
                     IF call.pc = "stopUnload"
                     THEN [recs EXCEPT ![call.rec].st = "stopFailed"] ELSE recs)
           ELSE IF call.pc = "stopUnload"
           THEN LET R == [recs EXCEPT ![call.rec].st = "unloaded"]
                IN  IF a # 0
                    THEN ChunkCommit(Here, hook, [calls EXCEPT ![c].pc = "read"], R,
                                     segs, HookStep("chunk", c, out, 0))
                    ELSE IF hook.kind = "hist" THEN Done(hook, R)
                    ELSE Then(Here, hook, R, segs)
           ELSE IF a = 0
                THEN \* analyzerRef.current is null: a TypeError, caught
                     Done(chunkFailed(hook), recs)
                ELSE /\ segs.count < cap.segments
                     /\ LET S == sendChunk(Here, recs, segs, a, call.rec)
                        IN  Then(S.W, hook, S.R, S.G)

(***************************************************************************)
(* The fallback request path of services/audioAnalysis.ts:                 *)
(* analyzeStreamingAudio posts a chunk through retryOperation and reports  *)
(* through the callback it is given.  The callback returns normally.       *)
(***************************************************************************)
\* What fetch rejects with (error.message).
NetworkErrors == {"Network request failed", "Aborted"}

\* What fetch resolves with: a Response, with its status, its ok flag
\* (status in the range 200-299) and the text of its body.
Response(status, body) ==
    [ok |-> status \in 200 .. 299, status |-> status, body |-> body]
NoResponse == Response(0, "")
Responses == { Response(200, "{\"suspicious\":true,\"confidence\":0.9}"),
               Response(200, "{oops"),
               Response(500, "{\"error\":\"boom\"}") }

\* How the promise of operation() settles.
Fulfilled(r) == [ok |-> TRUE,  error |-> "", response |-> r]
Failed(e)    == [ok |-> FALSE, error |-> e,  response |-> NoResponse]
FetchOutcomes == {Fulfilled(r) : r \in Responses} \cup {Failed(e) : e \in NetworkErrors}

\* What a call has done: an invocation of operation() with the way it
\* settled, or a timer of ms milliseconds that was awaited.
Invoked(out) == [ev |-> "op",   ms |-> 0,  out |-> out]
Waited(ms)   == [ev |-> "wait", ms |-> ms, out |-> Failed("")]

\* retryOperation has not settled, has returned a response, has thrown.
Pending     == [st |-> "pending",  error |-> "", response |-> NoResponse]
Returned(r) == [st |-> "returned", error |-> "", response |-> r]
Thrown(e)   == [st |-> "thrown",   error |-> e,  response |-> NoResponse]

\* A call of analyzeStreamingAudio: where it is (idle, op: awaiting
\* operation(), delay: awaiting the RETRY_DELAY timer, done), the number of
\* calls made so far, the retries argument of the running retryOperation,
\* the delay of the timer awaited, what the call has done, how
\* retryOperation settled, the arguments onAnalysisUpdate was invoked with,
\* and how the promise of the call settled.
NoReq == [pc |-> "idle", made |-> 0, retries |-> 0, timer |-> 0, log |-> <<>>,
          ret |-> Pending, updates |-> <<>>, settled |-> "none"]

\* retryOperation whose catch tests `retries >= 0`.
retrySettle_oneMore(q, out) ==
    LET q1 == [q EXCEPT !.log = Append(@, Invoked(out))]
    IN  IF out.ok
        THEN [q1 EXCEPT !.ret = Returned(out.response)]
        ELSE IF q.retries >= 0
             THEN [q1 EXCEPT !.pc = "delay", !.timer = RETRY_DELAY]
             ELSE [q1 EXCEPT !.ret = Thrown(out.error)]

\* retryOperation from the settling of `await operation()`: it returns the
\* value, or awaits the timer when retries are left, or throws the error.
retrySettle(q, out) ==
    LET q1 == [q EXCEPT !.log = Append(@, Invoked(out))]
    IN  IF out.ok
        THEN [q1 EXCEPT !.ret = Returned(out.response)]
        ELSE IF q.retries > 0
             THEN [q1 EXCEPT !.pc = "delay", !.timer = RETRY_DELAY]
             ELSE [q1 EXCEPT !.ret = Thrown(out.error)]

\* retryOperation after its timer: retryOperation(operation, retries - 1),
\* which invokes operation().
retryAgain(q) ==
    [q EXCEPT !.log = Append(@, Waited(q.timer)), !.timer = 0,
              !.retries = @ - 1, !.pc = "op"]

StatusMessage(status) ==
    CASE status = 500 -> "Streaming analysis failed with status: 500"
      [] OTHER        -> "Streaming analysis failed with status: other"
JSONError == "JSON Parse error"

\* The confidence field of the JSON value of a body.
Confidence(text) ==
    IF text = "{\"suspicious\":true,\"confidence\":0.9}" THEN "0.9" ELSE Absent

\* The arguments of onAnalysisUpdate: the JSON value of the body of a
\* response, and the fragment built by the catch block from error.message.
ServerResult(body) ==
    [value |-> JSONParse(body), confidence |-> Confidence(body), reason |-> Absent]
FailureFragment(message) ==
    [value |-> JSONValue(FALSE, Absent, "false"), confidence |-> "0",
     reason |-> message]

\* The catch block that throws the error again.
analyzeCatch_rethrows(q, message) ==
    [q EXCEPT !.pc = "done", !.settled = "rejected"]

\* The catch block of analyzeStreamingAudio.
analyzeCatch(q, message) ==
    [q EXCEPT !.updates = Append(@, FailureFragment(message)),
              !.pc = "done", !.settled = "resolved"]

\* analyzeStreamingAudio from the settling of `await retryOperation(...)`.
analyzeSettle(q) ==
    IF q.ret.st = "thrown"
    THEN analyzeCatch(q, q.ret.error)
    ELSE IF ~q.ret.response.ok
         THEN analyzeCatch(q, StatusMessage(q.ret.response.status))
         ELSE IF JSONParse(q.ret.response.body).throws  \* response.json() rejects
              THEN analyzeCatch(q, JSONError)
              ELSE [q EXCEPT !.updates = Append(@, ServerResult(q.ret.response.body)),
                             !.pc = "done", !.settled = "resolved"]

NotFallback == <<an, sock, hook, calls, recs, segs, cap, ghost, trace, last, fx>>

\* analyzeStreamingAudio(chunk, onAnalysisUpdate) is called: it runs up to
\* the await of operation() inside retryOperation(operation, MAX_RETRIES).
AnalyzeStreamingAudio ==
    /\ req.pc \in {"idle", "done"} /\ req.made < FallbackCalls
    /\ req' = [NoReq EXCEPT !.pc = "op", !.made = req.made + 1,
                            !.retries = MAX_RETRIES, !.settled = "pending"]
    /\ UNCHANGED NotFallback

\* The fetch of the running operation() settles.
FetchSettles(out) ==
    /\ req.pc = "op"
    /\ LET q == retrySettle(req, out)
       IN  req' = IF q.ret.st = "pending" THEN q ELSE analyzeSettle(q)
    /\ UNCHANGED NotFallback

\* The RETRY_DELAY timer of retryOperation fires.
DelayElapses ==
    /\ req.pc = "delay"
    /\ req' = retryAgain(req)
    /\ UNCHANGED NotFallback

(***************************************************************************)
(* The analyzer on its own: one analyzer of either revision, driven by an  *)
(* owner that may call its public methods at any time.                     *)
(***************************************************************************)
InitObjects ==
    /\ sock  = [s \in SocketIds |-> NoSockObj]
    /\ segs  = [count |-> 0, sent |-> {}, dropped |-> {}]
    /\ ghost = [a \in AnalyzerIds |-> NoGhost]
    /\ trace = NoTrace
    /\ last  = Step("init", 0, 0, "", 0, 0)
    /\ fx    = [cb |-> <<>>, tx |-> <<>>, ui |-> <<>>, set |-> <<>>]
    /\ req   = NoReq
    /\ calls = [c \in CallIds |-> NoCall]
    /\ recs  = [r \in RecIds |-> NoRec]

InitAnalyzer ==
    /\ \E k \in Kinds :
          an = [a \in AnalyzerIds |-> IF a = 1 THEN NewAnalyzer(k) ELSE NoAnalyzer]
    /\ hook = NoHook
    /\ cap  = [sockets |-> MaxSockets, segments |-> MaxSegments, analyzers |-> 1,
               calls |-> 0, user |-> 0,
               recordings |-> 0, frames |-> 0]
    /\ InitObjects

NextAnalyzer ==
    \/ \E a \in AnalyzerIds : Connect(a)
    \/ \E a \in AnalyzerIds : Disconnect(a)
    \/ \E a \in AnalyzerIds : SendAudio(a)
    \/ \E a \in AnalyzerIds : TimerFire(a)
    \/ \E s \in SocketIds : SocketOpen(s)
    \/ \E s \in SocketIds, text \in Frames : SocketMessage(s, text)
    \/ \E s \in SocketIds : SocketFail(s)
    \/ \E s \in SocketIds : SocketClose(s)

SpecAnalyzer == InitAnalyzer /\ [][NextAnalyzer]_vars

(***************************************************************************)
(* A hook with the analyzers it constructs.                                *)
(***************************************************************************)
InitHook(kind) ==
    /\ an   = [a \in AnalyzerIds |-> NoAnalyzer]
    /\ hook = NewHook(kind)
    /\ cap  = [sockets |-> HookSockets, segments |-> 0, analyzers |-> MaxAnalyzers,
               calls |-> MaxCalls, user |-> MaxCalls,
               recordings |-> IF kind = "hist" THEN MaxRecordings
                              ELSE PlainRecordings,
               frames |-> MaxFrames]
    /\ InitObjects

SocketEvents ==
    \/ \E a \in AnalyzerIds : TimerFire(a)
    \/ \E s \in SocketIds : SocketOpen(s)
    \/ \E s \in SocketIds, text \in Frames : SocketMessage(s, text)
    \/ \E s \in SocketIds, text \in Frames : SocketLateMessage(s, text)
    \/ \E s \in SocketIds : SocketFail(s)
    \/ \E s \in SocketIds : SocketClose(s)

InitHist == InitHook("hist")

NextHist ==
    \/ HistStartStreaming
    \/ HistStopStreaming
    \/ \E c \in CallIds, out \in Outcomes : HistStep(c, out)
    \/ HistRetryRecording
    \/ Rerender
    \/ SocketEvents

SpecHist == InitHist /\ [][NextHist]_vars

InitPlain == InitHook("plain")

NextPlain ==
    \/ PlainStartStreaming
    \/ PlainStopStreaming
    \/ \E c \in CallIds, out \in Outcomes : PlainStep(c, out)
    \/ Rerender
    \/ SocketEvents

SpecPlain == InitPlain /\ [][NextPlain]_vars

(***************************************************************************)
(* A hook on which stopStreaming is called and startStreaming never is.    *)
(***************************************************************************)
InitIdle ==
    /\ an   = [a \in AnalyzerIds |-> NoAnalyzer]
    /\ \E kind \in {"hist", "plain"} : hook = NewHook(kind)
    /\ cap  = [sockets |-> 0, segments |-> 0, analyzers |-> 0, calls |-> IdleCalls,
               user |-> IdleCalls,
               recordings |-> 0, frames |-> 0]
    /\ InitObjects

NextIdle ==
    \/ HistStopStreaming
    \/ PlainStopStreaming
    \/ \E c \in CallIds, out \in Outcomes : HistStep(c, out)

SpecIdle == InitIdle /\ [][NextIdle]_vars

(***************************************************************************)
(* Sessions of the "hist" hook on connections that do not fail: the        *)
(* sockets open, deliver analysis fragments and are closed; the parent     *)
(* keeps passing the same onAnalysisUpdate.                                *)
(***************************************************************************)
InitSession ==
    /\ an   = [a \in AnalyzerIds |-> NoAnalyzer]
    /\ hook = NewHook("hist")
    /\ cap  = [sockets |-> SessionSockets, segments |-> 0,
               analyzers |-> SessionAnalyzers, calls |-> SessionCalls,
               user |-> SessionCalls,
               recordings |-> 0, frames |-> SessionFrames]
    /\ InitObjects

NextSession ==
    \/ HistStartStreaming
    \/ HistStopStreaming
    \/ \E c \in CallIds, out \in Outcomes : HistStep(c, out)
    \/ \E s \in SocketIds : SocketOpen(s)
    \/ \E s \in SocketIds, text \in Fragments : SocketMessage(s, text)
    \/ \E s \in SocketIds, text \in Fragments : SocketLateMessage(s, text)
    \/ \E s \in SocketIds : SocketClose(s)

SpecSession == InitSession /\ [][NextSession]_vars

(***************************************************************************)
(* The same, with room for a second session after the first was stopped.   *)
(***************************************************************************)
InitRestart ==
    /\ an   = [a \in AnalyzerIds |-> NoAnalyzer]
    /\ hook = NewHook("hist")
    /\ cap  = [sockets |-> RestartSockets, segments |-> 0,
               analyzers |-> RestartAnalyzers, calls |-> RestartCalls,
               user |-> RestartCalls,
               recordings |-> 0, frames |-> RestartFrames]
    /\ InitObjects

SpecRestart == InitRestart /\ [][NextSession]_vars

(***************************************************************************)
(* The capture loop of a hook, on connections that open and do not fail:   *)
(* the recordings report their status, and the callbacks process chunks.   *)
(***************************************************************************)
InitCapture(kind) ==
    /\ an   = [a \in AnalyzerIds |-> NoAnalyzer]
    /\ hook = NewHook(kind)
    /\ cap  = [sockets |-> CaptureSockets, segments |-> CaptureSegments,
               analyzers |-> CaptureAnalyzers, calls |-> CaptureCalls,
               user |-> CaptureUserCalls,
               recordings |-> IF kind = "hist" THEN CaptureRecordings
                              ELSE CaptureRecordings + 1,
               frames |-> 0]
    /\ InitObjects

CaptureEvents ==
    \/ Rerender
    \/ \E s \in SocketIds : SocketOpen(s)
    \/ \E r \in RecIds : StatusUpdate(r)
    \/ \E r \in RecIds : StatusIgnored(r)
    \/ \E c \in CallIds, out \in Outcomes : ChunkStep(c, out)

InitHistCapture == InitCapture("hist")

NextHistCapture ==
    \/ HistStartStreaming
    \/ HistStopStreaming
    \/ \E c \in CallIds, out \in Outcomes : HistStep(c, out)
    \/ HistRetryRecording
    \/ CaptureEvents

SpecHistCapture == InitHistCapture /\ [][NextHistCapture]_vars

InitPlainCapture == InitCapture("plain")

NextPlainCapture ==
    \/ PlainStartStreaming
    \/ PlainStopStreaming
    \/ \E c \in CallIds, out \in Outcomes : PlainStep(c, out)
    \/ CaptureEvents

SpecPlainCapture == InitPlainCapture /\ [][NextPlainCapture]_vars

(***************************************************************************)
(* The capture loop of the "hist" hook, from the moment its session can    *)
(* record: a first startStreaming call has run to its end with every step  *)
(* resolved (its startRecording returned at once, the isStreaming of its   *)
(* closure being false), the socket has opened, and the parent has         *)
(* rendered, so that the memoized startStreaming closes over isStreaming   *)
(* true.                                                                   *)
(***************************************************************************)
InitLoop ==
    /\ an   = [a \in AnalyzerIds |->
                  IF a = 1 THEN [NewAnalyzer("flag") EXCEPT !.ws = 1, !.isConnected = TRUE]
                  ELSE NoAnalyzer]
    /\ sock = [s \in SocketIds |->
                  IF s = 1 THEN [st |-> "OPEN", owner |-> 1, up |-> FALSE]
                  ELSE NoSockObj]
    /\ hook = [NewHook("hist") EXCEPT !.isStreaming = TRUE, !.cbStream = TRUE,
                                      !.analyzerRef = 1]
    /\ calls = [c \in CallIds |->
                  IF c = 1 THEN [NoCall EXCEPT !.kind = "start", !.pc = "done"]
                  ELSE NoCall]
    /\ cap  = [sockets |-> LoopSockets, segments |-> LoopSegments,
               analyzers |-> LoopAnalyzers, calls |-> LoopCalls,
               user |-> LoopUserCalls, recordings |-> LoopRecordings,
               frames |-> 0]
    /\ segs  = [count |-> 0, sent |-> {}, dropped |-> {}]
    /\ ghost = [a \in AnalyzerIds |-> NoGhost]
    /\ trace = NoTrace
    /\ last  = HookStep("render", 0, "", 0)
    /\ fx    = [cb |-> <<>>, tx |-> <<>>, ui |-> <<>>, set |-> <<>>]
    /\ req   = NoReq
    /\ recs  = [r \in RecIds |-> NoRec]

SpecLoop == InitLoop /\ [][NextHistCapture]_vars

(***************************************************************************)
(* The fallback request path on its own.                                   *)
(***************************************************************************)
InitFallback ==
    /\ an   = [a \in AnalyzerIds |-> NoAnalyzer]
    /\ hook = NoHook
    /\ cap  = [sockets |-> 0, segments |-> 0, analyzers |-> 0, calls |-> 0,
               user |-> 0, recordings |-> 0, frames |-> 0]
    /\ InitObjects

NextFallback ==
    \/ AnalyzeStreamingAudio
    \/ \E out \in FetchOutcomes : FetchSettles(out)
    \/ DelayElapses

SpecFallback == InitFallback /\ [][NextFallback]_vars

(***************************************************************************)
(* Properties of the analyzer                                              *)
(***************************************************************************)
OwnedSockets(a) == {s \in SocketIds : sock[s].owner = a}

Quiet == fx.cb = <<>> /\ fx.tx = <<>> /\ fx.ui = <<>>

\* C2: in the analyzer with the shouldReconnect flag, once the owner has
\* called disconnect() no reconnect timer is pending and the analyzer creates
\* no further WebSocket, whatever events its closed socket delivers.
C2_DisconnectIsFinal ==
    [][\A a \in AnalyzerIds :
          (an[a].kind = "flag" /\ ghost'[a].disconnected) =>
              /\ an'[a].reconnectTimeout = 0
              /\ ghost[a].disconnected => OwnedSockets(a)' = OwnedSockets(a)]_vars

C2_Witness ==
    /\ an[1].kind = "flag" /\ ghost[1].disconnected
    /\ last.op \in {"fail", "close"} /\ last.a = 1
    /\ an[1].reconnectAttempts > 0

\* C4 (as claimed): the n-th connect() made by the reconnect timer since the
\* last successful open was scheduled with a delay of n x 1000 ms, and there
\* are at most maxReconnectAttempts of them.
C4_NthAttemptDelay ==
    last.op = "timer" =>
        /\ last.delay = BaseDelay * ghost[last.a].timerConnects
        /\ ghost[last.a].timerConnects <= maxReconnectAttempts

\* A failure event is delivered to analyzer a in this step.
FailureDelivered(a) == last'.op \in {"fail", "close"} /\ last'.a = a

\* C5 (as claimed): in the analyzer with the flag, a connection failure that
\* arrives when the attempts are used up reports the terminal error and
\* schedules no timer, and once the terminal error has been reported no
\* WebSocket is created except by a connect() call of the owner.
C5_TerminalError ==
    [][\A a \in AnalyzerIds : an[a].kind = "flag" =>
          /\ (/\ FailureDelivered(a)
              /\ an[a].reconnectAttempts = maxReconnectAttempts
              /\ an[a].shouldReconnect) =>
                 /\ \E i \in 1 .. Len(fx'.cb) :
                        fx'.cb[i] = Callback(a, "onError", FailedToConnect)
                 /\ an'[a].reconnectTimeout = 0
          /\ (ghost[a].exhausted /\ last'.op # "connect") =>
                 OwnedSockets(a)' = OwnedSockets(a)]_vars

\* C6: a segment offered to sendAudio while the channel is not open is
\* dropped without any effect and is never transmitted; a segment offered
\* while the channel is open is transmitted, alone, on the current socket.
C6_DropWhenNotConnected ==
    /\ segs.sent \cap segs.dropped = {}
    /\ last.op = "sendAudio" =>
          IF last.seg \in segs.dropped
          THEN Quiet
          ELSE fx.cb = <<>> /\ fx.tx = <<[s |-> an[last.a].ws, seg |-> last.seg]>>

C6_Witness ==
    /\ last.op = "sendAudio" /\ segs.dropped # {}
    /\ last.seg \notin segs.dropped /\ last.seg \in segs.sent

\* C7: a frame that is not valid JSON invokes no callback and leaves the
\* analyzers and the sockets as they were.
C7_MalformedFrameIgnored ==
    [][(last'.op = "onmessage" /\ JSONParse(last'.text).throws) =>
          (fx'.cb = <<>> /\ fx'.tx = <<>> /\ an' = an /\ sock' = sock)]_vars

C7_Witness == last.op = "onmessage" /\ JSONParse(last.text).throws /\ Quiet

\* C8 (as claimed): every well-formed JSON frame invokes exactly one
\* callback: onError when it has an `error` field, onAnalysisUpdate when it
\* has none.
C8_RoutedByErrorField ==
    (last.op = "onmessage" /\ ~JSONParse(last.text).throws) =>
        /\ Len(fx.cb) = 1
        /\ fx.cb[1].fn = IF JSONParse(last.text).error # Absent
                         THEN "onError" ELSE "onAnalysisUpdate"

(***************************************************************************)
(* Properties of the hooks                                                 *)
(***************************************************************************)
LiveSockets == {s \in SocketIds : sock[s].st \in {"CONNECTING", "OPEN"}}
HeldRecordings == {r \in RecIds : recs[r].st \in {"prepared", "recording"}}

\* C1 (as claimed): in the "hist" hook, when every startStreaming and
\* stopStreaming call made so far has settled, at most one WebSocket is open
\* or connecting and at most one prepared or started recording has not been
\* stopped and unloaded.
C1_AtMostOneChannelAndDevice ==
    (hook.kind = "hist" /\ Settled) =>
        Cardinality(LiveSockets) <= 1 /\ Cardinality(HeldRecordings) <= 1

\* C3 (as claimed): in the "plain" hook, once stopStreaming has called
\* disconnect() on its analyzer, that analyzer has no reconnect timer pending
\* and creates no further WebSocket.
C3_StopSuppressesReconnect ==
    [][\A a \in AnalyzerIds :
          (hook.kind = "plain" /\ an[a].kind = "plain" /\ ghost'[a].disconnected) =>
              /\ an'[a].reconnectTimeout = 0
              /\ ghost[a].disconnected => OwnedSockets(a)' = OwnedSockets(a)]_vars

\* A call of startStreaming is made in this step.
StartCalled == last'.op = "startStreaming" /\ last' # last

\* The call made in this step returned at once and changed nothing.
NoOpCall == hook' = hook /\ calls'[last'.c].pc = "done" /\ an' = an /\ sock' = sock

\* C9 (as claimed): in the "hist" hook, startStreaming called while an
\* earlier startStreaming is between setIsInitializing(true) and its finally
\* block returns at once and changes nothing.
C9_StartWhileInitializingIsNoOp ==
    [][(hook.kind = "hist" /\ StartCalled /\ hook.isInitializing) => NoOpCall]_vars

\* C10 (as claimed): in the "hist" hook, startStreaming called while the
\* session is streaming and not initializing returns at once and changes
\* nothing.
C10_StartWhileStreamingIsNoOp ==
    [][(hook.kind = "hist" /\ StartCalled /\ hook.isStreaming /\ ~hook.isInitializing)
          => NoOpCall]_vars

\* No call of startStreaming has been made and no recording was started.
NeverStarted == \A c \in CallIds : calls[c].kind \in {"none", "stop"}

\* C11: on a hook that was never started, no stopStreaming call is rejected,
\* whatever its cleanup steps do, and the session state stays as constructed:
\* not streaming, no analyzer, no recording, an empty history.
C11_StopWhenNeverStarted ==
    NeverStarted =>
        /\ \A c \in CallIds : ~calls[c].rejected
        /\ ~hook.isStreaming /\ ~hook.isInitializing
        /\ hook.analyzerRef = 0 /\ AnalyzersMade = {} /\ Created(sock) = {}
        /\ hook.recordingRef = 0 /\ RecsMade(recs) = {}
        /\ History(hook) = <<>> /\ hook.chunkCountRef = 0

C11_Witness ==
    /\ NeverStarted /\ last.op = "step" /\ last.out = "throw"
    /\ calls[last.c].kind = "stop" /\ calls[last.c].pc = "done"

(***************************************************************************)
(* Properties of the suspicion history                                     *)
(***************************************************************************)
Suspicious(text) == JSONParse(text).suspicious = "true"

\* The fragments the last step handed to the hook's analysis callback.
Ingested(effects) ==
    LET cbs == SelectSeq(effects.cb, LAMBDA c : c.fn = "onAnalysisUpdate")
    IN  [i \in 1 .. Len(cbs) |-> cbs[i].arg]

\* C12: in the "hist" hook, a step that ingests fragments appends exactly
\* its suspicious ones to the end of the history, in arrival order; any
\* other step leaves the history as it is or clears it; so the history holds
\* suspicious fragments only, those ingested since it was last cleared.
C12_HistoryIsSuspiciousSubsequence ==
    [][hook.kind = "hist" =>
          /\ IF Ingested(fx') # <<>>
             THEN History(hook)' =
                      History(hook) \o SelectSeq(Ingested(fx'), Suspicious)
             ELSE History(hook)' \in {History(hook), <<>>}
          /\ \A i \in 1 .. Len(History(hook)') : Suspicious(History(hook)'[i])]_vars

C12_Witness ==
    /\ hook.kind = "hist" /\ Len(History(hook)) = 2
    /\ History(hook)[1] # History(hook)[2]
    /\ Ingested(fx) = <<History(hook)[2]>>

\* A call of stopStreaming was the latest call when this step was taken, and
\* the step delivers an inbound frame to the analyzer that call disconnected.
MessageAfterStop ==
    /\ hook.kind = "hist" /\ Stopped
    /\ last'.op \in {"onmessage", "latemessage"}
    /\ ghost[last'.a].disconnected

\* C13 (as claimed): in the "hist" hook, between a stopStreaming call and
\* the next startStreaming call no inbound frame, received by the analyzer
\* that was disconnected, changes the history or reaches the UI callback.
C13_NoGrowthAfterStop ==
    [][MessageAfterStop => (fx'.ui = <<>> /\ History(hook)' = History(hook))]_vars

\* C14 (as claimed): in the "hist" hook, when startStreaming was called after
\* a stopStreaming call that has settled, the first fragment ingested since,
\* received by the analyzer of the new session, reaches the UI with a history
\* that holds at most that fragment.
C14_RestartBeginsEmpty ==
    (/\ hook.kind = "hist" /\ trace.restarted
     /\ fx.ui # <<>> /\ trace.fresh = Len(fx.ui)
     /\ last.a = hook.analyzerRef) =>
        fx.ui[1].history \in {<<>>, <<fx.ui[1].frame>>}

\* C15: in the "hist" hook, every fragment handed to the analysis callback
\* is forwarded to the UI once, in order, suspicious or not, and comes with
\* the history as it is after the fragment was ingested.
C15_EveryFragmentForwardedOnce ==
    hook.kind = "hist" =>
        /\ Len(fx.ui) = Len(Ingested(fx))
        /\ \A i \in 1 .. Len(fx.ui) : fx.ui[i].frame = Ingested(fx)[i]
        /\ fx.ui # <<>> =>
              /\ fx.ui[Len(fx.ui)].history = History(hook)
              /\ fx.ui[Len(fx.ui)].ref = hook.analysisHistoryRef

C15_Witness ==
    /\ hook.kind = "hist" /\ hook.frames = 2 /\ Len(fx.ui) = 1
    /\ ~Suspicious(fx.ui[1].frame) /\ fx.ui[1].history = <<>>

\* C16: an array of which the UI was given a reference keeps its items,
\* whatever is ingested or cleared later.
C16_SnapshotsAreImmutable ==
    [][\A i \in 1 .. Len(hook.arrays) :
          hook.arrays[i].held =>
              /\ i <= Len(hook.arrays')
              /\ hook.arrays'[i].items = hook.arrays[i].items]_vars

C16_Witness ==
    /\ Len(hook.arrays) = 3 /\ History(hook) = <<>>
    /\ hook.arrays[1].held /\ Len(hook.arrays[1].items) = 1
    /\ hook.arrays[2].held /\ Len(hook.arrays[2].items) = 2

\* C19: the teardown steps a stopStreaming call of the "hist" hook has
\* completed are, in this order: the streaming flag cleared, the channel
\* closed (when there is an analyzer), the recording cleanup, the history
\* cleared; the history is cleared only once the cleanup has resolved.
TeardownOrders ==
    { <<"flag">>, <<"flag", "channel">>,
      <<"flag", "device", "history">>, <<"flag", "channel", "device", "history">> }

C19_TeardownOrder ==
    \A c \in CallIds :
        (hook.kind = "hist" /\ calls[c].kind = "stop") =>
            /\ calls[c].log \in TeardownOrders
            /\ Len(calls[c].log) > 2 => calls[c].pc = "done"

C19_Witness ==
    \E c \in CallIds :
        /\ hook.kind = "hist" /\ calls[c].kind = "stop"
        /\ calls[c].log = <<"flag", "channel", "device", "history">>
        /\ last.op = "step" /\ last.c = c

(***************************************************************************)
(* Properties of the session's failures                                    *)
(***************************************************************************)
\* The permission request of a startStreaming call resolves as not granted
\* in this step.
PermissionRefused == last'.op = "step" /\ last'.out = "no" /\ last' # last

\* C17 (as claimed): when the permission request of a startStreaming call is
\* refused, the call ends there: the refusal is in the error state, the
\* streaming flag is not raised, isInitializing is false, and no analyzer,
\* socket or recording is created.
C17_PermissionDenied ==
    [][(hook.kind # "none" /\ PermissionRefused) =>
          /\ hook'.error = PermissionDenied
          /\ calls'[last'.c].pc = "done"
          /\ hook'.isStreaming => hook.isStreaming
          /\ ~hook'.isInitializing
          /\ an' = an /\ sock' = sock /\ recs' = recs]_vars

\* The analyzer the hook refers to reported the terminal error in the last
\* step, its attempts being used up.
Exhausted ==
    /\ hook.analyzerRef # 0 /\ last.op \in {"fail", "close"}
    /\ last.a = hook.analyzerRef /\ ghost[last.a].exhausted
    /\ \E i \in 1 .. Len(fx.cb) :
           fx.cb[i] = Callback(last.a, "onError", FailedToConnect)

\* C18 (as claimed): when the analyzer of the session reports the terminal
\* error, the error state holds it and the session is idle: not streaming,
\* no recording referenced, no socket open or connecting.
C18_ExhaustionForcesIdle ==
    (hook.kind = "hist" /\ Exhausted) =>
        /\ hook.error = FailedToConnect
        /\ ~hook.isStreaming
        /\ hook.recordingRef = 0
        /\ LiveSockets = {}

(***************************************************************************)
(* Properties of the capture loop                                          *)
(***************************************************************************)
\* readAsStringAsync is rejected in this step, in a callback that processes
\* a chunk while the session is streaming.
ReadFails ==
    /\ hook.isStreaming
    /\ last'.op = "chunk" /\ last'.out = "throw" /\ last' # last
    /\ calls[last'.c].pc = "read"

\* C20 (as claimed): when reading the recorded data of a chunk fails while
\* the session is streaming, the callback goes on to the next cycle: a new
\* Audio.Recording is constructed for it and the session is still streaming.
C20_ReadFailureSkipsSegment ==
    [][ReadFails => (hook'.isStreaming /\ RecsMade(recs)' # RecsMade(recs))]_vars

\* The device acquisition of a startRecording call fails in this step:
\* prepareToRecordAsync or startAsync is rejected.
AcquisitionFails ==
    /\ last'.op = "step" /\ last'.out = "throw"
    /\ calls[last'.c].pc \in {"prep", "startAsync"} /\ calls'[last'.c].pc = "done"

\* A startRecording run by a retry timer acquires the device in this step:
\* its prepareToRecordAsync resolves.
RetryAcquires ==
    /\ last'.op = "step" /\ last'.out = "ok"
    /\ calls[last'.c].kind = "retry" /\ calls[last'.c].pc = "prep"
    /\ recs'[calls[last'.c].rec].st = "prepared"

\* C21 (as claimed): in the "hist" hook, a device acquisition that fails
\* while the session is streaming sets one more retry timer, and once
\* stopStreaming was the latest call no startRecording run by a retry timer
\* acquires the device (the session not having been made streaming again
\* by a startStreaming call that was in progress).
C21_RetryUntilStopped ==
    [][hook.kind = "hist" =>
          /\ (AcquisitionFails /\ hook.isStreaming) => hook'.retry = hook.retry + 1
          /\ (Stopped /\ ~hook.isStreaming) => ~RetryAcquires]_vars

\* C22 (as claimed): while stopStreaming is the latest call and the session
\* is not streaming, no step makes an Audio.Recording prepared or recording,
\* whichever call, callback or timer takes the step.
C22_NoCycleAfterStop ==
    [][(hook.kind # "none" /\ Stopped /\ ~hook.isStreaming) =>
          \A r \in RecIds :
              recs'[r].st \in {"prepared", "recording"} => recs'[r].st = recs[r].st]_vars

\* C23 (as claimed): in the "hist" hook, when a stopStreaming call made while
\* recordingRef held a recording has settled, its cleanupRecording having
\* resolved, stopAndUnloadAsync has been called on that recording and
\* recordingRef no longer holds it.
C23_StopReleasesDevice ==
    \A c \in CallIds :
        (/\ hook.kind = "hist" /\ calls[c].kind = "stop"
         /\ calls[c].pc = "done" /\ calls[c].held # 0
         /\ \E i \in 1 .. Len(calls[c].log) : calls[c].log[i] = "device") =>
            /\ recs[calls[c].held].stops > 0
            /\ hook.recordingRef # calls[c].held

\* The last step was the last one of a startStreaming call that asked for
\* the permission, and the promise it awaited resolved; no earlier step of
\* the call was rejected, or the call would have ended there.
StartCompleted ==
    /\ last.op = "step" /\ last.out = "ok"
    /\ calls[last.c].kind = "start" /\ calls[last.c].pc = "done"

\* C24 (as claimed): in the "hist" hook, when a startStreaming call has run
\* to its end with the permission granted and nothing thrown, the session is
\* streaming, connect() has been called on the analyzer in analyzerRef, and
\* recordingRef holds a recording that was prepared and started.
C24_StartBeginsFirstCycle ==
    (hook.kind = "hist" /\ StartCompleted) =>
        /\ hook.isStreaming
        /\ hook.analyzerRef # 0 /\ OwnedSockets(hook.analyzerRef) # {}
        /\ hook.recordingRef # 0 /\ recs[hook.recordingRef].st = "recording"

\* C25 (as claimed): in the "plain" hook, whenever isStreaming is false and
\* every startStreaming and stopStreaming call has settled, no WebSocket is
\* open or connecting, recordingRef is null and no recording is prepared or
\* recording.
C25_NeverHalfInitialized ==
    (hook.kind = "plain" /\ ~hook.isStreaming /\ Settled) =>
        /\ LiveSockets = {}
        /\ hook.recordingRef = 0 /\ HeldRecordings = {}

\* The recordings that hold the capture device.
DeviceHolders(R) == {r \in RecIds : R[r].st \in {"prepared", "recording", "stopping"}}

\* C26 (as claimed): in the "hist" hook, a callback reads the recorded data
\* only once its stopAndUnloadAsync has completed and hands data to sendAudio
\* only after that; a new Audio.Recording is constructed only when no
\* recording holds the device and no callback is still before its sendAudio;
\* and at most one recording is prepared or recording.
C26_CycleOrder ==
    [][hook.kind = "hist" =>
          /\ \A c \in CallIds :
                 calls'[c].pc = "read" => recs'[calls'[c].rec].st = "unloaded"
          /\ \A r \in RecIds : recs'[r].sends > 0 => recs'[r].st = "unloaded"
          /\ RecsMade(recs') # RecsMade(recs) =>
                 /\ DeviceHolders(recs') = {}
                 /\ \A c \in CallIds : calls'[c].pc \notin ChunkPcs
          /\ Cardinality(HeldRecordings') <= 1]_vars

\* C27: stopAndUnloadAsync is called at most once on each recording, and
\* the data of each recording is handed to sendAudio at most once, whatever
\* status updates arrive and whatever stopStreaming and startStreaming calls
\* are made while a callback is suspended.
C27_SingleOwnership ==
    \A r \in RecIds : recs[r].stops <= 1 /\ recs[r].sends <= 1

\* A status update of a recording is ignored while the callback that took
\* it is suspended and a stopStreaming call, made after it, is in progress.
C27_Witness ==
    /\ last.op = "ignored"
    /\ \E c, d \in CallIds :
           /\ calls[c].kind = "chunk" /\ calls[c].pc \in ChunkPcs
           /\ recs[calls[c].rec].stops = 1
           /\ calls[d].kind = "stop" /\ d > c /\ calls[d].pc # "done"

\* A status callback hands a segment to sendAudio in this step.
SegmentHanded == last'.op = "chunk" /\ segs'.count = segs.count + 1

\* C28: in the "hist" hook, the step in which a callback hands its segment
\* to sendAudio also constructs the next Audio.Recording and begins its
\* prepareToRecordAsync; no inbound frame is needed for it.
C28_NextCycleDoesNotWaitForAnswer ==
    [][(hook.kind = "hist" /\ SegmentHanded) =>
          \E r \in RecIds, c \in CallIds :
              /\ recs[r].st = "none" /\ recs'[r].st = "new"
              /\ calls[c].kind = "none" /\ calls'[c].pc = "prep" /\ calls'[c].rec = r
              /\ hook'.frames = hook.frames]_vars

\* A segment went out on the socket, the next recording is recording, and
\* no inbound frame has ever been delivered.
C28_Witness ==
    /\ hook.kind = "hist" /\ hook.isStreaming
    /\ segs.sent # {} /\ hook.frames = 0 /\ trace.fresh = 0
    /\ \E r \in RecIds : recs[r].sends = 1
    /\ hook.recordingRef # 0 /\ recs[hook.recordingRef].st = "recording"
    /\ recs[hook.recordingRef].sends = 0

\* C29 (as claimed): in the "hist" hook a status callback that processes a
\* chunk gives it the previous value of chunkCountRef plus one, a number
\* no chunk has had since startStreaming or stopStreaming was last called;
\* no other step changes chunkCountRef, except a step of stopStreaming,
\* which may set it to 0.
C29_NumbersStrictlyIncrease ==
    [][hook.kind = "hist" =>
          /\ last'.op = "status" =>
                 /\ hook'.chunkCountRef = hook.chunkCountRef + 1
                 /\ hook'.chunkCountRef \notin trace.numbers
          /\ last'.op # "status" =>
                 \/ hook'.chunkCountRef = hook.chunkCountRef
                 \/ /\ hook'.chunkCountRef = 0
                    /\ last'.op = "step" /\ calls[last'.c].kind = "stop"]_vars

\* The connection analyzer a is using fails in this step, while a wants to
\* stay connected and has reconnection attempts left.
UnexpectedLoss(a) ==
    /\ last'.op = "fail" /\ last'.a = a /\ an[a].ws = last'.s
    /\ an[a].kind = "flag" => an[a].shouldReconnect
    /\ an[a].reconnectAttempts < maxReconnectAttempts

\* C30 (as claimed): a connection failure delivered as an error event
\* followed by a close event raises reconnectAttempts by exactly one and
\* leaves one reconnect timer, set with the delay of that attempt.
C30_OneLossOneAttempt ==
    [][\A a \in AnalyzerIds :
          UnexpectedLoss(a) =>
              /\ an'[a].reconnectAttempts = an[a].reconnectAttempts + 1
              /\ an'[a].reconnectTimeout = BaseDelay * (an[a].reconnectAttempts + 1)]_vars

\* C31 (as claimed): in the analyzer with the flag, once disconnect() has
\* been called, an error or close event of a socket of the analyzer does
\* not make the analyzer invoke onError.
C31_ShutdownReportsNoFailure ==
    [][\A a \in AnalyzerIds :
          (/\ an[a].kind = "flag" /\ ghost[a].disconnected
           /\ FailureDelivered(a)) =>
              \A i \in 1 .. Len(fx'.cb) :
                  ~(fx'.cb[i].a = a /\ fx'.cb[i].fn = "onError")]_vars

\* isConnected of analyzer a is true only if a holds a socket and that
\* socket is open.
ConnectedMeansOpen(a) ==
    an[a].isConnected => an[a].ws # 0 /\ sock[an[a].ws].st = "OPEN"

\* An open, error or close event of socket s is delivered in this step, and
\* the analyzer that created s now holds another socket.
StaleEvent(s) ==
    /\ last'.op \in {"onopen", "fail", "close"} /\ last'.s = s
    /\ an[sock[s].owner].ws \notin {0, s}

\* C32 (as claimed): an open, error or close event of a replaced socket
\* leaves isConnected, the reconnect timer, the current socket and its
\* state as they are; and in every state isConnected is true only if the
\* current socket exists and is open.
C32_StaleEventsIgnored ==
    [][/\ \A s \in SocketIds :
             StaleEvent(s) =>
                 LET a == sock[s].owner
                 IN  /\ an'[a].isConnected = an[a].isConnected
                     /\ an'[a].reconnectTimeout \in {0, an[a].reconnectTimeout}
                     /\ an'[a].ws = an[a].ws
                     /\ sock'[an[a].ws].st = sock[an[a].ws].st
       /\ \A a \in AnalyzerIds : ConnectedMeansOpen(a)']_vars

\* C33: the runtime holds at most one pending timer of an analyzer, the one
\* reconnectTimeout refers to; a timer that fires connect() is that one,
\* never a timer that was cancelled or replaced; and connect() and
\* disconnect() leave no timer pending.
C33_OneReconnectTimer ==
    /\ \A a \in AnalyzerIds :
           an[a].timers = IF an[a].reconnectTimeout # 0 THEN 1 ELSE 0
    /\ last.op = "timer" => last.delay # 0
    /\ last.op \in {"connect", "disconnect", "timer"} => an[last.a].timers = 0

\* One failure whose error event set a timer and whose close event
\* cancelled it and set the next one.
C33_Witness ==
    /\ last.op = "fail" /\ an[last.a].reconnectAttempts = 2
    /\ an[last.a].reconnectTimeout = 2 * BaseDelay /\ an[last.a].timers = 1

\* C34: reconnectAttempts of an analyzer stays within
\* 0 .. maxReconnectAttempts; a step raises it only by one for each
\* reconnect timer it sets, whose delay is that of the new value; the open event of a
\* socket of the analyzer sets it to 0, and no other step lowers it;
\* connect(), disconnect() and the timer leave it as it is.
C34_AttemptsCounter ==
    [][\A a \in AnalyzerIds :
          /\ an'[a].reconnectAttempts \in 0 .. maxReconnectAttempts
          /\ an'[a].reconnectAttempts > an[a].reconnectAttempts =>
                 /\ FailureDelivered(a)
                 /\ Len(fx'.set) = an'[a].reconnectAttempts - an[a].reconnectAttempts
                 /\ \A i \in 1 .. Len(fx'.set) :
                        fx'.set[i] = BaseDelay * (an[a].reconnectAttempts + i)
          /\ (last'.op = "onopen" /\ last'.a = a) => an'[a].reconnectAttempts = 0
          /\ an'[a].reconnectAttempts < an[a].reconnectAttempts =>
                 last'.op = "onopen" /\ last'.a = a
          /\ (last'.op \in {"connect", "disconnect", "timer"} /\ last'.a = a) =>
                 an'[a].reconnectAttempts = an[a].reconnectAttempts]_vars

\* A socket has opened while a reconnect timer set after a failure is still
\* pending: the open event has put reconnectAttempts back to 0.
C34_Witness ==
    /\ last.op = "onopen" /\ an[last.a].reconnectAttempts = 0
    /\ an[last.a].reconnectTimeout # 0 /\ an[last.a].isConnected

(***************************************************************************)
(* Properties of the fallback request path                                 *)
(***************************************************************************)
\* The positions in the log of the running call at which operation() was
\* invoked.
Invocations == {i \in 1 .. Len(req.log) : req.log[i].ev = "op"}

\* C35: retryOperation invokes operation() at most MAX_RETRIES + 1 times;
\* between two invocations it awaits one timer of RETRY_DELAY, after a
\* failure; no invocation follows one that succeeded, whose value is
\* returned; and it throws only after MAX_RETRIES + 1 failures, the error
\* of the last of them.
C35_RetryOperation ==
    LET n == Len(req.log)
    IN  /\ Cardinality(Invocations) <= MAX_RETRIES + 1
        /\ \A i \in 1 .. n : (i \in Invocations) <=> (i % 2 = 1)
        /\ \A i \in (1 .. n) \ Invocations :
               req.log[i].ms = RETRY_DELAY /\ ~req.log[i - 1].out.ok
        /\ \A i \in Invocations :
               req.log[i].out.ok =>
                   i = n /\ req.ret = Returned(req.log[i].out.response)
        /\ req.ret.st = "returned" => n > 0 /\ req.log[n].out.ok
        /\ req.ret.st = "thrown" =>
               /\ Cardinality(Invocations) = MAX_RETRIES + 1
               /\ req.ret.error = req.log[n].out.error
        /\ (Cardinality(Invocations) = MAX_RETRIES + 1 /\ ~req.log[n].out.ok) =>
               req.ret = Thrown(req.log[n].out.error)
        /\ (req.pc = "done") <=> (req.ret.st # "pending")

\* Every invocation failed, the first and the last with different errors.
C35_Witness ==
    /\ req.ret.st = "thrown" /\ Cardinality(Invocations) = MAX_RETRIES + 1
    /\ req.log[1].out.error # req.log[Len(req.log)].out.error

\* The fragment the catch block builds: not suspicious, confidence 0.
IsFailureFragment(u) ==
    u.value.suspicious = "false" /\ u.confidence = "0" /\ u.reason # Absent

\* The request succeeded: retryOperation returned a response with ok.
RequestOK == req.ret.st = "returned" /\ req.ret.response.ok

\* A call that has not settled has not invoked onAnalysisUpdate.
QuietUntilDone ==
    req.pc \in {"op", "delay"} => req.settled = "pending" /\ req.updates = <<>>

====
